---- MODULE Spec2Model ----
(***************************************************************************)
(* State-machine model of the TAP adapters of indexer-service-rs:          *)
(*   tap/src/receipt_storage_adapter.rs  (table scalar_tap_receipts)       *)
(*   tap/src/receipt_checks_adapter.rs   (is_unique, the whitelists and    *)
(*                                        the appraisals)                  *)
(*   tap/src/collateral_adapter.rs       (the placeholder ledger)          *)
(*   tap/src/rav_storage_adapter.rs      (table scalar_tap_latest_rav,     *)
(*                                        the cache and its watcher task)  *)
(* Every SQL statement is one atomic action on the table it names.         *)
(***************************************************************************)
EXTENDS Integers, FiniteSets, Sequences, TLC

\* ------------------------------------------------------------------ bounds
MaxId == 2
MaxUpdates == 2
MaxOthers == 1
MaxCalls == 3
\* the width of the u128 of the model
U128Bits == 4
\* the width of the u64 of the model where the whole domain is enumerated
U64Bits == 3

\* ethereum_types::Address; `shown` stands for the bytes that
\* Address::to_string() prints ("0x" + first two bytes + "…" + last two
\* bytes), `hidden` for the sixteen bytes it leaves out.  The allocations of
\* the model differ in the bytes that are printed.
Allocs == {[shown |-> "abab", hidden |-> 0], [shown |-> "cdcd", hidden |-> 0]}
AddressToString(address) == <<"0x", address.shown>>

\* An allocation that differs from 0xabab..ab in bytes that Address::to_string()
\* does not print: the two have the same text, so the same key in the tables.
SharedKeyAlloc == [shown |-> "abab", hidden |-> 1]

\* the timestamps of the receipts: each bound value of a range has a timestamp
\* below it, at it or above it
Timestamps == {0, 1}
\* the values the bounds of a range take: a lower and an upper one
BoundVals == {0, 1}
\* the timestamps of the RAVs: an older and a newer one
RavTimestamps == {1, 2}
\* the gateways (signers of receipts): the wallet of test_utils::keys() and
\* another one
Gateways == {[shown |-> "9858", hidden |-> 0], [shown |-> "1111", hidden |-> 0]}
\* the query identifiers and the u128 values of the appraisals
QueryIds == {0, 1}
Values == {0, 1}

\* Option<T>
None == <<>>
Some(v) == <<v>>
Unwrap(option) == option[1]

\* ------------------------------------------------- receipts and their JSON
\* tap_core Receipt, reduced to the fields the adapters read (timestamp_ns)
\* or that decide the signature (nonce).
Messages == [timestamp_ns : Timestamps, nonce : {0}]

\* EIP712SignedMessage::new: the signature is a deterministic function of the
\* payload and of the one wallet of test_utils::keys().
Sign(message) == <<"sig", message.timestamp_ns, message.nonce>>

create_received_receipt(timestamp_ns, nonce, query_id) ==
    [signed_receipt |-> [message |-> [timestamp_ns |-> timestamp_ns,
                                      nonce |-> nonce],
                         signature |-> Sign([timestamp_ns |-> timestamp_ns,
                                             nonce |-> nonce])],
     query_id |-> query_id]

ReceivedReceipts == {create_received_receipt(m.timestamp_ns, m.nonce, 0) : m \in Messages}

\* (mutant) the timestamp_ns of the message is not serialised
to_value_NoTimestamp(receipt) ==
    <<"json", [receipt EXCEPT !.signed_receipt.message.timestamp_ns = 0]>>

\* serde_json::to_value / serde_json::from_value of a ReceivedReceipt.
to_value(receipt) == <<"json", receipt>>
from_value(json) == json[2]

\* signature.to_string(): the text stored in the signature column.
SignatureToString(signature) == <<"0x", signature>>

\* (mutant) the u64 goes through the signed integer of the same width
BigDecimalFrom_Signed(val) ==
    [int_val |-> IF val >= 2^(U64Bits - 1) THEN val - 2^U64Bits ELSE val,
     scale |-> 0]

\* BigDecimal::from(u64): unscaled digits and a scale of 0.
BigDecimalFrom(val) == [int_val |-> val, scale |-> 0]

\* Order of two NUMERIC values of the same scale.
NumLess(x, y) == x.int_val < y.int_val

\* ------------------------------------------------------------------ ranges
\* std::ops::Bound<u64>
Included(v) == [kind |-> "Included", val |-> v]
Excluded(v) == [kind |-> "Excluded", val |-> v]
Unbounded == [kind |-> "Unbounded", val |-> 0]
Bounds == {Included(v) : v \in BoundVals} \cup {Excluded(v) : v \in BoundVals}
              \cup {Unbounded}
\* every RangeBounds<u64> a caller can pass: 9 shapes, the inverted ones too
Ranges == [start : Bounds, end : Bounds]
FullRange == [start |-> Unbounded, end |-> Unbounded]

\* u64::MAX, and every Bound<u64> and RangeBounds<u64> of the whole domain
U64_MAX == 2^U64Bits - 1
U64Bounds == {Included(v) : v \in 0..U64_MAX} \cup {Excluded(v) : v \in 0..U64_MAX}
                 \cup {Unbounded}
U64Ranges == [start : U64Bounds, end : U64Bounds]

\* (mutant) an exclusive bound is sent as an inclusive one
u64_bound_to_bigdecimal_bound_Inclusive(bound) ==
    CASE bound.kind = "Unbounded" -> [kind |-> "Unbounded", val |-> BigDecimalFrom(0)]
      [] OTHER -> [kind |-> "Included", val |-> BigDecimalFrom(bound.val)]

u64_bound_to_bigdecimal_bound(bound) ==
    CASE bound.kind = "Included" -> [kind |-> "Included", val |-> BigDecimalFrom(bound.val)]
      [] bound.kind = "Excluded" -> [kind |-> "Excluded", val |-> BigDecimalFrom(bound.val)]
      [] OTHER -> [kind |-> "Unbounded", val |-> BigDecimalFrom(0)]

rangebounds_to_pgrange(range) ==
    [start |-> u64_bound_to_bigdecimal_bound(range.start),
     end |-> u64_bound_to_bigdecimal_bound(range.end)]

\* PostgreSQL refuses a range value whose lower bound is above its upper
\* bound ("range lower bound must be less than or equal to range upper
\* bound"); the statement then fails and `?` returns the error.
PgRangeAccepted(pg) ==
    \/ pg.start.kind = "Unbounded"
    \/ pg.end.kind = "Unbounded"
    \/ ~NumLess(pg.end.val, pg.start.val)

\* `$range::numrange @> timestamp_ns`
PgRangeContains(pg, x) ==
    /\ CASE pg.start.kind = "Included" -> ~NumLess(x, pg.start.val)
         [] pg.start.kind = "Excluded" -> NumLess(pg.start.val, x)
         [] OTHER -> TRUE
    /\ CASE pg.end.kind = "Included" -> ~NumLess(pg.end.val, x)
         [] pg.end.kind = "Excluded" -> NumLess(x, pg.end.val)
         [] OTHER -> TRUE

\* ------------------------------------------------------------------ RAVs
\* test_utils::create_rav: a ReceiptAggregateVoucher signed by keys().
create_rav(allocation_id, timestamp_ns, value_aggregate) ==
    [message |-> [allocation_id |-> allocation_id, timestamp_ns |-> timestamp_ns,
                  value_aggregate |-> value_aggregate],
     signature |-> <<"sig", allocation_id.shown, timestamp_ns, value_aggregate>>]

SignedRAVs == {create_rav(a, t, 0) : a \in Allocs, t \in RavTimestamps}

\* The two ingestions of one signed receipt that are followed
Ingestions == {1, 2}

\* The RAVStorageAdapter whose cache and watcher are followed.  The adapters of
\* the other processes act on it through the table only, by their
\* update_last_rav (RemoteUpdateLastRav).
RavAdapters == {"p"}

\* ------------------------------------------------------------------- state
VARIABLES
    rows,               \* table scalar_tap_receipts: a set of rows
    next_id,            \* the BIGSERIAL sequence behind scalar_tap_receipts.id
    returned_ids,       \* the identifiers store_receipt returned, in order
    rav_rows,           \* table scalar_tap_latest_rav: a set of rows
    rav_updates,        \* the update_last_rav calls that completed, in order
    allocation_of,      \* RAVStorageAdapter.allocation_id (None before new())
    local_rav_storage,  \* RAVStorageAdapter.local_rav_storage
    new_pc,             \* where RAVStorageAdapter::new() of the process stands
    caller,             \* the retrieve_last_rav() call in flight, if any
    watcher,            \* the task spawned on rav_notifications_watcher
    pending,            \* notifications queued at the watcher's PgListener
    query_appraisals,   \* ReceiptChecksAdapter.query_appraisals (HashMap)
    allocation_ids,     \* ReceiptChecksAdapter.allocation_ids (HashSet)
    gateway_ids,        \* ReceiptChecksAdapter.gateway_ids (HashSet)
    gateway_collateral_storage, \* CollateralAdapter._gateway_collateral_storage
    subtractions,       \* the subtract_collateral calls that completed, in order
    cycle,              \* the aggregation cycle in flight, if any
    ingestion,          \* the two ingestions of one signed receipt
    lastOp              \* the call that completed last, with what it returned

receiptVars == <<rows, next_id, returned_ids>>
ravVars == <<rav_rows, rav_updates, allocation_of, local_rav_storage, new_pc,
             caller, watcher, pending>>
checkVars == <<query_appraisals, allocation_ids, gateway_ids>>
collateralVars == <<gateway_collateral_storage, subtractions>>
driverVars == <<cycle, ingestion>>
vars == <<rows, next_id, returned_ids, rav_rows, rav_updates, allocation_of,
          local_rav_storage, new_pc, caller, watcher, pending, query_appraisals,
          allocation_ids, gateway_ids, gateway_collateral_storage, subtractions,
          cycle, ingestion, lastOp>>

\* Result<T, E>: Ok(v), or Err(e) (val then holds `none`, a value of T that
\* stands for nothing)
Ok(v) == [ok |-> TRUE, val |-> v, err |-> ""]
Err(e, none) == [ok |-> FALSE, val |-> none, err |-> e]
Call(op, ret) == [op |-> op, ret |-> ret]

\* impl From<sqlx::Error>, From<serde_json::Error>, From<TryFromIntError> for
\* AdapterError: every error becomes the one variant of the enum; what the
\* error was survives only as the text of its `error` field.
AdapterErrorFrom(error) == "AdapterError"

\* the adapters after construction, before any call
InitAdapters ==
    /\ rows = {}
    /\ next_id = 1
    /\ returned_ids = <<>>
    /\ rav_rows = {}
    /\ rav_updates = <<>>
    /\ allocation_of = [ad \in RavAdapters |-> None]
    /\ local_rav_storage = [ad \in RavAdapters |-> None]
    /\ new_pc = [ad \in RavAdapters |-> "unborn"]
    /\ caller = [ad \in RavAdapters |-> [pc |-> "idle", latest_rav |-> None]]
    /\ watcher = [ad \in RavAdapters |-> [pc |-> "unborn", latest_rav |-> None]]
    /\ pending = [ad \in RavAdapters |-> 0]
    /\ query_appraisals = <<>>
    /\ allocation_ids = {}
    /\ gateway_ids = {}
    /\ gateway_collateral_storage = <<>>
    /\ subtractions = <<>>
    /\ cycle = [pc |-> "idle", allocation_id |-> None, window |-> FullRange,
                batch |-> {}]
    /\ ingestion = [i \in Ingestions |->
                        [pc |-> "store", receipt |-> None, id |-> 0, unique |-> None]]

Init ==
    /\ InitAdapters
    /\ lastOp = Call("none", Ok(None))

\* a caller has built a range and is about to hand it to the adapter
InitRanges ==
    /\ InitAdapters
    /\ \E range \in U64Ranges : lastOp = Call("RangeBounds", Ok(range))

\* ------------------------------------------------- ReceiptStorageAdapter
\* (mutant) the identifier is one more than the largest identifier in the table
NextReceiptId_MaxPlusOne ==
    IF rows = {} THEN 1
    ELSE 1 + (CHOOSE i \in {r.id : r \in rows} : \A r \in rows : r.id <= i)

\* The value the BIGSERIAL column id takes in the next INSERT.
NextReceiptId == next_id

\* the row the INSERT of store_receipt builds from a receipt
ReceiptRow(id, allocation_id, receipt) ==
    [id |-> id,
     signature |-> SignatureToString(receipt.signed_receipt.signature),
     allocation_id |-> AddressToString(allocation_id),
     timestamp_ns |-> BigDecimalFrom(receipt.signed_receipt.message.timestamp_ns),
     received_receipt |-> to_value(receipt)]

\* store_receipt: INSERT ... RETURNING id
InsertReceipt(allocation_id, receipt) ==
    /\ rows' = rows \cup {ReceiptRow(NextReceiptId, allocation_id, receipt)}
    /\ next_id' = next_id + 1
    /\ returned_ids' = Append(returned_ids, NextReceiptId)
    /\ lastOp' = Call("store_receipt", Ok(NextReceiptId))
    /\ UNCHANGED <<collateralVars, driverVars, ravVars, checkVars>>

\* store_receipt, while the sequence is below the bound of the model
StoreReceipt(allocation_id, receipt) ==
    /\ next_id <= MaxId
    /\ InsertReceipt(allocation_id, receipt)

\* (mutant) the SELECT without `allocation_id = $1`
RetrieveRows_AllAllocations(allocation_id, range) ==
    {<<r.id, from_value(r.received_receipt)>> :
        r \in {q \in rows : PgRangeContains(rangebounds_to_pgrange(range),
                                            q.timestamp_ns)}}

\* The rows the SELECT of retrieve_receipts_in_timestamp_range matches, as
\* the (id, ReceivedReceipt) pairs the method builds from them.
RetrieveRows(allocation_id, range) ==
    {<<r.id, from_value(r.received_receipt)>> :
        r \in {q \in rows : /\ q.allocation_id = AddressToString(allocation_id)
                            /\ PgRangeContains(rangebounds_to_pgrange(range),
                                               q.timestamp_ns)}}

RetrieveReceiptsInTimestampRange(allocation_id, range) ==
    /\ lastOp' = Call("retrieve_receipts_in_timestamp_range",
                      IF PgRangeAccepted(rangebounds_to_pgrange(range))
                      THEN Ok(RetrieveRows(allocation_id, range))
                      ELSE Err("AdapterError", {}))
    /\ UNCHANGED <<collateralVars, driverVars, receiptVars, checkVars, ravVars>>

\* (mutant) the UPDATE without its WHERE clause
UpdateReceiptById_AllRows(receipt_id, receipt) ==
    /\ IF \E r \in rows : r.id = receipt_id
       THEN /\ rows' = {[r EXCEPT !.received_receipt = to_value(receipt)] : r \in rows}
            /\ lastOp' = Call("update_receipt_by_id", Ok(None))
       ELSE /\ rows' = rows
            /\ lastOp' = Call("update_receipt_by_id",
                              Err(AdapterErrorFrom("RowNotFound"), None))
    /\ UNCHANGED <<collateralVars, driverVars,
                   next_id, returned_ids, ravVars, checkVars>>

\* update_receipt_by_id: UPDATE ... SET received_receipt = $1 WHERE id = $2
\* RETURNING id, read with fetch_one (no row is sqlx::Error::RowNotFound, which
\* `?` converts).  The statement does not read the allocation of the adapter.
UpdateReceiptById(receipt_id, receipt) ==
    /\ IF \E r \in rows : r.id = receipt_id
       THEN /\ rows' = {IF r.id = receipt_id
                        THEN [r EXCEPT !.received_receipt = to_value(receipt)]
                        ELSE r : r \in rows}
            /\ lastOp' = Call("update_receipt_by_id", Ok(None))
       ELSE /\ rows' = rows
            /\ lastOp' = Call("update_receipt_by_id",
                              Err(AdapterErrorFrom("RowNotFound"), None))
    /\ UNCHANGED <<collateralVars, driverVars,
                   next_id, returned_ids, ravVars, checkVars>>

\* update_receipt_by_id when the statement itself fails (the pool is closed,
\* the connection is lost): `?` converts the sqlx::Error and returns it
UpdateReceiptByIdFail ==
    /\ lastOp' = Call("update_receipt_by_id", Err(AdapterErrorFrom("PoolClosed"), None))
    /\ UNCHANGED <<collateralVars, driverVars, receiptVars, checkVars, ravVars>>

\* The rows the DELETE of remove_receipts_in_timestamp_range matches: WHERE
\* $1::numrange @> timestamp_ns.  The statement does not read the allocation of
\* the adapter.
RemoveRows(range) ==
    {q \in rows : PgRangeContains(rangebounds_to_pgrange(range), q.timestamp_ns)}

RemoveReceiptsInTimestampRange(range) ==
    /\ IF PgRangeAccepted(rangebounds_to_pgrange(range))
       THEN /\ rows' = rows \ RemoveRows(range)
            /\ lastOp' = Call("remove_receipts_in_timestamp_range", Ok(None))
       ELSE /\ rows' = rows
            /\ lastOp' = Call("remove_receipts_in_timestamp_range", Err("AdapterError", None))
    /\ UNCHANGED <<collateralVars, driverVars,
                   next_id, returned_ids, ravVars, checkVars>>

\* rangebounds_to_pgrange, applied to the range the caller has built
RangeboundsToPgrange ==
    /\ lastOp.op = "RangeBounds"
    /\ lastOp' = Call("rangebounds_to_pgrange",
                      Ok(rangebounds_to_pgrange(lastOp.ret.val)))
    /\ UNCHANGED <<receiptVars, ravVars, checkVars, collateralVars, driverVars>>

\* --------------------------------------------------- ReceiptChecksAdapter
\* (mutant) the query without `id != $1`
is_unique_NoSelfExclusion(receipt, receipt_id) ==
    ~\E r \in rows : r.signature = SignatureToString(receipt.signature)

\* (mutant) the query with `id > $1` for `id != $1`
is_unique_NewerOnly(receipt, receipt_id) ==
    ~\E r \in rows : /\ r.id > receipt_id
                     /\ r.signature = SignatureToString(receipt.signature)

\* is_unique: SELECT id ... WHERE id != $1 and signature = $2 LIMIT 1
is_unique(receipt, receipt_id) ==
    ~\E r \in rows : /\ r.id # receipt_id
                     /\ r.signature = SignatureToString(receipt.signature)

IsUnique(receipt, receipt_id) ==
    /\ lastOp' = Call("is_unique", Ok(is_unique(receipt, receipt_id)))
    /\ UNCHANGED <<collateralVars, driverVars, receiptVars, checkVars, ravVars>>

\* (mutant) the allocation is looked up in the gateway whitelist
is_valid_allocation_id_InGateways(allocation_id) == allocation_id \in gateway_ids

\* is_valid_allocation_id: allocation_ids.read().contains(&allocation_id)
is_valid_allocation_id(allocation_id) == allocation_id \in allocation_ids

IsValidAllocationId(allocation_id) ==
    /\ lastOp' = Call("is_valid_allocation_id", Ok(is_valid_allocation_id(allocation_id)))
    /\ UNCHANGED <<collateralVars, driverVars, receiptVars, ravVars, checkVars>>

\* is_valid_gateway_id: gateway_ids.read().contains(&gateway_id)
is_valid_gateway_id(gateway_id) == gateway_id \in gateway_ids

IsValidGatewayId(gateway_id) ==
    /\ lastOp' = Call("is_valid_gateway_id", Ok(is_valid_gateway_id(gateway_id)))
    /\ UNCHANGED <<collateralVars, driverVars, receiptVars, ravVars, checkVars>>

\* HashMap::get
HashMapGet(map, key) == IF key \in DOMAIN map THEN Some(map[key]) ELSE None

\* (mutant) a value below the appraisal is accepted too
is_valid_value_AtMost(value, query_id) ==
    LET appraised_value == HashMapGet(query_appraisals, query_id)
    IN  IF appraised_value = None
        THEN Err("panic", FALSE)
        ELSE Ok(value <= Unwrap(appraised_value))

\* is_valid_value: query_appraisals.get(&query_id).unwrap() panics when the
\* map has no entry for query_id (the read guard does not poison the lock);
\* otherwise false iff value != *appraised_value
is_valid_value(value, query_id) ==
    LET appraised_value == HashMapGet(query_appraisals, query_id)
    IN  IF appraised_value = None
        THEN Err("panic", FALSE)
        ELSE Ok(~(value # Unwrap(appraised_value)))

\* (mutant) the appraisal is taken out of the map (HashMap::remove) when read
IsValidValue_Remove(value, query_id) ==
    /\ lastOp' = Call("is_valid_value", is_valid_value(value, query_id))
    /\ query_appraisals' = [q \in DOMAIN query_appraisals \ {query_id} |->
                               query_appraisals[q]]
    /\ UNCHANGED <<collateralVars, driverVars,
                   receiptVars, ravVars, allocation_ids, gateway_ids>>

IsValidValue(value, query_id) ==
    /\ lastOp' = Call("is_valid_value", is_valid_value(value, query_id))
    /\ UNCHANGED <<collateralVars, driverVars, receiptVars, ravVars, checkVars>>

\* The external cost-appraisal routine records the appraisal of a query
\* (write-once per query_id) through the shared map.
RecordAppraisal(query_id, value) ==
    /\ query_id \notin DOMAIN query_appraisals
    /\ query_appraisals' = (query_id :> value) @@ query_appraisals
    /\ UNCHANGED <<collateralVars, driverVars,
                   receiptVars, ravVars, allocation_ids, gateway_ids, lastOp>>

\* The external synchronization routine replaces a whitelist through the
\* shared set.
RefreshAllocationIds(whitelist) ==
    /\ allocation_ids' = whitelist
    /\ UNCHANGED <<collateralVars, driverVars,
                   receiptVars, ravVars, query_appraisals, gateway_ids, lastOp>>

RefreshGatewayIds(whitelist) ==
    /\ gateway_ids' = whitelist
    /\ UNCHANGED <<collateralVars, driverVars,
                   receiptVars, ravVars, query_appraisals, allocation_ids, lastOp>>

\* ------------------------------------------------------ CollateralAdapter
\* u128::MAX
U128_MAX == 2^U128Bits - 1
\* the amounts of the subtractions: the smallest and the largest
Amounts == {1, U128_MAX}

\* get_available_collateral: Ok(u128::MAX), whatever the gateway
get_available_collateral(gateway_id) == Ok(U128_MAX)

GetAvailableCollateral(gateway_id) ==
    /\ lastOp' = Call("get_available_collateral", get_available_collateral(gateway_id))
    /\ UNCHANGED <<receiptVars, ravVars, checkVars, collateralVars, driverVars>>

\* subtract_collateral: Ok(()), whatever the gateway and the value; the map is
\* neither read nor written
subtract_collateral(gateway_id, value) == Ok(None)

SubtractCollateral(gateway_id, value) ==
    /\ Len(subtractions) < MaxCalls
    /\ subtractions' = Append(subtractions,
                              [gateway_id |-> gateway_id, value |-> value,
                               ret |-> subtract_collateral(gateway_id, value)])
    /\ lastOp' = Call("subtract_collateral", subtract_collateral(gateway_id, value))
    /\ UNCHANGED <<receiptVars, ravVars, checkVars, driverVars,
                   gateway_collateral_storage>>

\* ------------------------------------------------------ RAVStorageAdapter
\* (mutant) ON CONFLICT (allocation_id) DO NOTHING
Upsert_DoNothing(table, allocation_id, latest_rav) ==
    IF \E r \in table : r.allocation_id = allocation_id
    THEN table
    ELSE table \cup {[allocation_id |-> allocation_id, latest_rav |-> latest_rav]}

\* (mutant) the row is replaced only by a RAV with a later timestamp_ns
Upsert_KeepNewer(table, allocation_id, latest_rav) ==
    IF \E r \in table : r.allocation_id = allocation_id
    THEN {IF /\ r.allocation_id = allocation_id
             /\ r.latest_rav[2].message.timestamp_ns < latest_rav[2].message.timestamp_ns
          THEN [r EXCEPT !.latest_rav = latest_rav]
          ELSE r : r \in table}
    ELSE table \cup {[allocation_id |-> allocation_id, latest_rav |-> latest_rav]}

\* INSERT ... ON CONFLICT (allocation_id) DO UPDATE SET latest_rav = $2
Upsert(table, allocation_id, latest_rav) ==
    IF \E r \in table : r.allocation_id = allocation_id
    THEN {IF r.allocation_id = allocation_id
          THEN [r EXCEPT !.latest_rav = latest_rav]
          ELSE r : r \in table}
    ELSE table \cup {[allocation_id |-> allocation_id, latest_rav |-> latest_rav]}

\* The trigger of table scalar_tap_latest_rav: a notification on channel
\* scalar_tap_rav_notification for every listener that has subscribed.
Listening == {"recv", "retrieve", "write"}
Notify(queues) ==
    [ad \in RavAdapters |->
        IF watcher[ad].pc \in Listening THEN queues[ad] + 1 ELSE queues[ad]]

\* update_last_rav
UpdateLastRav(ad, rav) ==
    /\ new_pc[ad] = "returned"
    /\ Len(rav_updates) < MaxUpdates
    /\ rav_rows' = Upsert(rav_rows, AddressToString(Unwrap(allocation_of[ad])),
                          to_value(rav))
    /\ pending' = Notify(pending)
    /\ rav_updates' = Append(rav_updates, [allocation_id |-> Unwrap(allocation_of[ad]),
                                            rav |-> rav])
    /\ lastOp' = Call("update_last_rav", Ok(None))
    /\ UNCHANGED <<collateralVars, driverVars,
                   receiptVars, checkVars, allocation_of, local_rav_storage, new_pc, caller,
                   watcher>>

\* update_last_rav of an adapter that another process built for allocation_id
RemoteUpdateLastRav(allocation_id, rav) ==
    /\ Len(rav_updates) < MaxUpdates
    /\ rav_rows' = Upsert(rav_rows, AddressToString(allocation_id), to_value(rav))
    /\ pending' = Notify(pending)
    /\ rav_updates' = Append(rav_updates, [allocation_id |-> allocation_id,
                                            rav |-> rav])
    /\ UNCHANGED <<collateralVars, driverVars,
                   receiptVars, checkVars, allocation_of, local_rav_storage, new_pc, caller,
                   watcher, lastOp>>

\* update_last_rav when the statement fails: the error is returned
UpdateLastRavFail(ad, rav) ==
    /\ new_pc[ad] = "returned"
    /\ lastOp' = Call("update_last_rav", Err("AdapterError", None))
    /\ UNCHANGED <<collateralVars, driverVars, receiptVars, checkVars, ravVars>>

\* (mutant) last_rav reads the row of the allocation instead of the cache
last_rav_ReadThrough(ad) ==
    LET allocation_id == AddressToString(Unwrap(allocation_of[ad]))
    IN  IF \E r \in rav_rows : r.allocation_id = allocation_id
        THEN Ok(Some(from_value((CHOOSE r \in rav_rows :
                                     r.allocation_id = allocation_id).latest_rav)))
        ELSE Ok(None)

\* last_rav: a read of the cache
last_rav(ad) == Ok(local_rav_storage[ad])

LastRav(ad) ==
    /\ new_pc[ad] = "returned"
    /\ lastOp' = Call("last_rav", last_rav(ad))
    /\ UNCHANGED <<collateralVars, driverVars, receiptVars, checkVars, ravVars>>

\* retrieve_last_rav_static, the SELECT: fetch_optional of the row of the
\* allocation
FetchLatestRav(allocation_id) ==
    IF \E r \in rav_rows : r.allocation_id = AddressToString(allocation_id)
    THEN Some((CHOOSE r \in rav_rows :
                   r.allocation_id = AddressToString(allocation_id)).latest_rav)
    ELSE None

\* (mutant) the cache is assigned what was fetched, None included
StoreFetched_Assign(ad, latest_rav) ==
    [local_rav_storage EXCEPT ![ad] =
        IF latest_rav = None THEN None ELSE Some(from_value(Unwrap(latest_rav)))]

\* (mutant) the fetched RAV is dropped, the cache is never written
StoreFetched_Drop(ad, latest_rav) == local_rav_storage

\* retrieve_last_rav_static, after the SELECT: `if let Some(latest_rav)`
\* replaces the cache, None leaves it alone
StoreFetched(ad, latest_rav) ==
    IF latest_rav = None
    THEN local_rav_storage
    ELSE [local_rav_storage EXCEPT ![ad] = Some(from_value(Unwrap(latest_rav)))]

\* RAVStorageAdapter::new up to the first await: the cache starts empty and
\* the watcher is spawned
New(ad, allocation_id) ==
    /\ new_pc[ad] = "unborn"
    /\ allocation_of' = [allocation_of EXCEPT ![ad] = Some(allocation_id)]
    /\ local_rav_storage' = [local_rav_storage EXCEPT ![ad] = None]
    /\ watcher' = [watcher EXCEPT ![ad] = [pc |-> "listen", latest_rav |-> None]]
    /\ new_pc' = [new_pc EXCEPT ![ad] = "retrieve"]
    /\ UNCHANGED <<collateralVars, driverVars,
                   receiptVars, checkVars, rav_rows, rav_updates, caller, pending, lastOp>>

\* retrieve_last_rav (called by new() and by the owner of the adapter): the
\* SELECT
CallerRetrieve(ad) ==
    /\ new_pc[ad] \in {"retrieve", "returned"}
    /\ caller[ad].pc = "idle"
    /\ caller' = [caller EXCEPT ![ad] =
                      [pc |-> "fetched", latest_rav |-> FetchLatestRav(Unwrap(allocation_of[ad]))]]
    /\ UNCHANGED <<collateralVars, driverVars,
                   receiptVars, checkVars, rav_rows, rav_updates, allocation_of,
                   local_rav_storage, new_pc, watcher, pending, lastOp>>

\* retrieve_last_rav: the SELECT fails; new() unwraps the error and panics
CallerRetrieveFail(ad) ==
    /\ new_pc[ad] \in {"retrieve", "returned"}
    /\ caller[ad].pc = "idle"
    /\ new_pc' = [new_pc EXCEPT ![ad] = IF @ = "retrieve" THEN "panicked" ELSE @]
    /\ lastOp' = IF new_pc[ad] = "retrieve" THEN Call("new", Err("panic", None))
                 ELSE Call("retrieve_last_rav", Err("sqlx::Error", None))
    /\ UNCHANGED <<collateralVars, driverVars,
                   receiptVars, checkVars, rav_rows, rav_updates, allocation_of,
                   local_rav_storage, caller, watcher, pending>>

\* retrieve_last_rav: the cache write and the return; new() returns the adapter
CallerStore(ad) ==
    /\ caller[ad].pc = "fetched"
    /\ local_rav_storage' = StoreFetched(ad, caller[ad].latest_rav)
    /\ caller' = [caller EXCEPT ![ad] = [pc |-> "idle", latest_rav |-> None]]
    /\ new_pc' = [new_pc EXCEPT ![ad] = "returned"]
    /\ lastOp' = IF new_pc[ad] = "retrieve" THEN Call("new", Ok(None))
                 ELSE Call("retrieve_last_rav", Ok(None))
    /\ UNCHANGED <<collateralVars, driverVars,
                   receiptVars, checkVars, rav_rows, rav_updates, allocation_of, watcher,
                   pending>>

\* rav_notifications_watcher: PgListener::connect_with and listener.listen;
\* notifications are queued for the listener from here on
WatcherListen(ad) ==
    /\ watcher[ad].pc = "listen"
    /\ watcher' = [watcher EXCEPT ![ad].pc = "recv"]
    /\ UNCHANGED <<collateralVars, driverVars,
                   receiptVars, checkVars, rav_rows, rav_updates, allocation_of,
                   local_rav_storage, new_pc, caller, pending, lastOp>>

\* rav_notifications_watcher: listener.recv() returns a notification
WatcherRecv(ad) ==
    /\ watcher[ad].pc = "recv"
    /\ pending[ad] > 0
    /\ pending' = [pending EXCEPT ![ad] = @ - 1]
    /\ watcher' = [watcher EXCEPT ![ad].pc = "retrieve"]
    /\ UNCHANGED <<collateralVars, driverVars,
                   receiptVars, checkVars, rav_rows, rav_updates, allocation_of,
                   local_rav_storage, new_pc, caller, lastOp>>

\* rav_notifications_watcher: retrieve_last_rav_static, the SELECT
WatcherRetrieve(ad) ==
    /\ watcher[ad].pc = "retrieve"
    /\ watcher' = [watcher EXCEPT ![ad] =
                      [pc |-> "write", latest_rav |-> FetchLatestRav(Unwrap(allocation_of[ad]))]]
    /\ UNCHANGED <<collateralVars, driverVars,
                   receiptVars, checkVars, rav_rows, rav_updates, allocation_of,
                   local_rav_storage, new_pc, caller, pending, lastOp>>

\* rav_notifications_watcher: retrieve_last_rav_static, the cache write, and
\* back to the top of the loop
WatcherStore(ad) ==
    /\ watcher[ad].pc = "write"
    /\ local_rav_storage' = StoreFetched(ad, watcher[ad].latest_rav)
    /\ watcher' = [watcher EXCEPT ![ad] = [pc |-> "recv", latest_rav |-> None]]
    /\ UNCHANGED <<collateralVars, driverVars,
                   receiptVars, checkVars, rav_rows, rav_updates, allocation_of, new_pc,
                   caller, pending, lastOp>>

\* rav_notifications_watcher: connect_with, listen, recv or the SELECT returns
\* an error; `?` returns it from the task, whose JoinHandle nobody awaits
WatcherFail(ad) ==
    /\ watcher[ad].pc \in {"listen", "recv", "retrieve"}
    /\ watcher' = [watcher EXCEPT ![ad] = [pc |-> "exited", latest_rav |-> None]]
    /\ pending' = [pending EXCEPT ![ad] = 0]
    /\ UNCHANGED <<collateralVars, driverVars,
                   receiptVars, checkVars, rav_rows, rav_updates, allocation_of,
                   local_rav_storage, new_pc, caller, lastOp>>

\* ------------------------------------------------ the aggregation cycle
\* The aggregation routine, a consumer of the adapters: it reads the batch of
\* a window with retrieve_receipts_in_timestamp_range, folds it into a RAV
\* that is signed outside, calls update_last_rav, then calls
\* remove_receipts_in_timestamp_range for the window.  Each call is the
\* statement of the adapter; the routine keeps the batch between them.
CycleRetrieve(allocation_id, window) ==
    /\ cycle.pc = "idle"
    /\ PgRangeAccepted(rangebounds_to_pgrange(window))
    /\ cycle' = [pc |-> "retrieved", allocation_id |-> Some(allocation_id),
                 window |-> window, batch |-> RetrieveRows(allocation_id, window)]
    /\ lastOp' = Call("retrieve_receipts_in_timestamp_range",
                      Ok(RetrieveRows(allocation_id, window)))
    /\ UNCHANGED <<receiptVars, ravVars, checkVars, collateralVars, ingestion>>

CycleUpdateLastRav(rav) ==
    /\ cycle.pc = "retrieved"
    /\ rav.message.allocation_id = Unwrap(cycle.allocation_id)
    /\ Len(rav_updates) < MaxUpdates
    /\ rav_rows' = Upsert(rav_rows, AddressToString(Unwrap(cycle.allocation_id)),
                          to_value(rav))
    /\ pending' = Notify(pending)
    /\ rav_updates' = Append(rav_updates, [allocation_id |-> Unwrap(cycle.allocation_id),
                                            rav |-> rav])
    /\ cycle' = [cycle EXCEPT !.pc = "updated"]
    /\ lastOp' = Call("update_last_rav", Ok(None))
    /\ UNCHANGED <<receiptVars, checkVars, collateralVars, ingestion, allocation_of,
                   local_rav_storage, new_pc, caller, watcher>>

CycleRemove ==
    /\ cycle.pc = "updated"
    /\ rows' = rows \ RemoveRows(cycle.window)
    /\ cycle' = [pc |-> "idle", allocation_id |-> None, window |-> FullRange,
                 batch |-> {}]
    /\ lastOp' = Call("remove_receipts_in_timestamp_range", Ok(None))
    /\ UNCHANGED <<next_id, returned_ids, ravVars, checkVars, collateralVars, ingestion>>

\* the cycle and the store_receipt calls that run beside it
NextCycle ==
    \/ \E a \in Allocs, window \in Ranges : CycleRetrieve(a, window)
    \/ \E rav \in SignedRAVs : CycleUpdateLastRav(rav)
    \/ CycleRemove
    \/ \E a \in Allocs, receipt \in ReceivedReceipts : StoreReceipt(a, receipt)

\* ------------------------------------ two ingestions of one signed receipt
\* An ingestion stores the receipt, then asks is_unique with the identifier
\* store_receipt gave it (as test::is_unique does); two of them run on the
\* same signed receipt, beside the stores of other handlers.
IngestStore(i, allocation_id, receipt) ==
    /\ ingestion[i].pc = "store"
    /\ \A j \in Ingestions : ingestion[j].receipt \in {None, Some(receipt)}
    /\ rows' = rows \cup {ReceiptRow(NextReceiptId, allocation_id, receipt)}
    /\ next_id' = next_id + 1
    /\ returned_ids' = Append(returned_ids, NextReceiptId)
    /\ ingestion' = [ingestion EXCEPT ![i] =
                         [pc |-> "is_unique", receipt |-> Some(receipt),
                          id |-> NextReceiptId, unique |-> None]]
    /\ lastOp' = Call("store_receipt", Ok(NextReceiptId))
    /\ UNCHANGED <<ravVars, checkVars, collateralVars, cycle>>

IngestIsUnique(i) ==
    /\ ingestion[i].pc = "is_unique"
    /\ ingestion' = [ingestion EXCEPT ![i].pc = "done",
                                      ![i].unique =
                                          Some(is_unique(Unwrap(ingestion[i].receipt).signed_receipt,
                                                         ingestion[i].id))]
    /\ lastOp' = Call("is_unique",
                      Ok(is_unique(Unwrap(ingestion[i].receipt).signed_receipt,
                                   ingestion[i].id)))
    /\ UNCHANGED <<receiptVars, ravVars, checkVars, collateralVars, cycle>>

\* the two ingestions and the store_receipt calls that run beside them
NextIngest ==
    \/ \E i \in Ingestions, a \in Allocs, receipt \in ReceivedReceipts :
           IngestStore(i, a, receipt)
    \/ \E i \in Ingestions : IngestIsUnique(i)
    \/ \E a \in Allocs, receipt \in ReceivedReceipts : StoreReceipt(a, receipt)

\* ------------------------------------- the scenario of the range tests
\* test::retrieve_receipts_in_timestamp_range and
\* test::remove_receipts_in_timestamp_range: 10 receipts with timestamps 42
\* to 51, stored in order by an adapter for 0xabab...ab
ScenarioCount == 10
ScenarioFirstTs == 42
ScenarioFirstNonce == 684
ScenarioAllocation == CHOOSE a \in Allocs : a.shown = "abab"
OtherAllocation == CHOOSE a \in Allocs : a.shown = "cdcd"
ScenarioReceipt(i) ==
    create_received_receipt(i + ScenarioFirstTs, i + ScenarioFirstNonce, i)

\* 45..=51
ScenarioRetrieveRange == [start |-> Included(45), end |-> Included(51)]
\* ..50
ScenarioRemoveRange == [start |-> Unbounded, end |-> Excluded(50)]

StoredFor(allocation_id) ==
    Cardinality({r \in rows : r.allocation_id = AddressToString(allocation_id)})

\* the i-th store_receipt of the loop
ScenarioStore ==
    /\ lastOp.op \in {"none", "store_receipt"}
    /\ StoredFor(ScenarioAllocation) < ScenarioCount
    /\ InsertReceipt(ScenarioAllocation, ScenarioReceipt(StoredFor(ScenarioAllocation)))

\* meanwhile an adapter for another allocation stores one of the receipts
ScenarioStoreOther(i) ==
    /\ lastOp.op \in {"none", "store_receipt"}
    /\ StoredFor(OtherAllocation) < MaxOthers
    /\ InsertReceipt(OtherAllocation, ScenarioReceipt(i))

\* retrieve_receipts_in_timestamp_range(45..=51) once the ten are stored
ScenarioRetrieve ==
    /\ lastOp.op = "store_receipt"
    /\ StoredFor(ScenarioAllocation) = ScenarioCount
    /\ RetrieveReceiptsInTimestampRange(ScenarioAllocation, ScenarioRetrieveRange)

\* remove_receipts_in_timestamp_range(..50)
ScenarioRemove ==
    /\ lastOp.op = "retrieve_receipts_in_timestamp_range"
    /\ RemoveReceiptsInTimestampRange(ScenarioRemoveRange)

\* retrieve_receipts_in_timestamp_range(..) after the remove
ScenarioRetrieveAll ==
    /\ lastOp.op = "remove_receipts_in_timestamp_range"
    /\ RetrieveReceiptsInTimestampRange(ScenarioAllocation, FullRange)

NextScenario ==
    \/ ScenarioStore
    \/ \E i \in 0..(ScenarioCount - 1) : ScenarioStoreOther(i)
    \/ ScenarioRetrieve
    \/ ScenarioRemove
    \/ ScenarioRetrieveAll

\* ------------------------------------------------------- specifications
NextReceipts ==
    \/ \E a \in Allocs, receipt \in ReceivedReceipts : StoreReceipt(a, receipt)
    \/ \E a \in Allocs, range \in Ranges : RetrieveReceiptsInTimestampRange(a, range)
    \/ \E id \in 1..(MaxId + 1), receipt \in ReceivedReceipts :
           UpdateReceiptById(id, receipt)
    \/ UpdateReceiptByIdFail
    \/ \E range \in Ranges : RemoveReceiptsInTimestampRange(range)
    \/ \E receipt \in ReceivedReceipts, id \in 1..(MaxId + 1) :
           IsUnique(receipt.signed_receipt, id)

WatcherStep(ad) ==
    \/ WatcherListen(ad)
    \/ WatcherRecv(ad)
    \/ WatcherRetrieve(ad)
    \/ WatcherStore(ad)

NextRav ==
    \/ \E ad \in RavAdapters, a \in Allocs : New(ad, a)
    \/ \E ad \in RavAdapters : CallerRetrieve(ad)
    \/ \E ad \in RavAdapters : CallerRetrieveFail(ad)
    \/ \E ad \in RavAdapters : CallerStore(ad)
    \/ \E ad \in RavAdapters, rav \in SignedRAVs : UpdateLastRav(ad, rav)
    \/ \E ad \in RavAdapters, rav \in SignedRAVs : UpdateLastRavFail(ad, rav)
    \/ \E a \in Allocs, rav \in SignedRAVs : RemoteUpdateLastRav(a, rav)
    \/ \E ad \in RavAdapters : LastRav(ad)
    \/ \E ad \in RavAdapters : WatcherStep(ad)
    \/ \E ad \in RavAdapters : WatcherFail(ad)

\* the same, with the update_last_rav calls of a process whose adapter is for
\* the allocation that prints as 0xabab..ab does
NextRavShared ==
    \/ NextRav
    \/ \E t \in RavTimestamps :
           RemoteUpdateLastRav(SharedKeyAlloc, create_rav(SharedKeyAlloc, t, 0))

\* the checks of ReceiptChecksAdapter, the writers of the state they read
\* (the owners of the shared map and sets, and store_receipt for is_unique)
NextChecks ==
    \/ \E a \in Allocs, receipt \in ReceivedReceipts : StoreReceipt(a, receipt)
    \/ \E receipt \in ReceivedReceipts, id \in 1..(MaxId + 1) :
           IsUnique(receipt.signed_receipt, id)
    \/ \E a \in Allocs : IsValidAllocationId(a)
    \/ \E g \in Gateways : IsValidGatewayId(g)
    \/ \E value \in Values, q \in QueryIds : IsValidValue(value, q)
    \/ \E q \in QueryIds, value \in Values : RecordAppraisal(q, value)
    \/ \E whitelist \in SUBSET Allocs : RefreshAllocationIds(whitelist)
    \/ \E whitelist \in SUBSET Gateways : RefreshGatewayIds(whitelist)

\* the calls of the CollateralAdapter
NextCollateral ==
    \/ \E g \in Gateways : GetAvailableCollateral(g)
    \/ \E g \in Gateways, value \in Amounts : SubtractCollateral(g, value)

\* the conversion of the ranges
NextRanges == RangeboundsToPgrange

Next ==
    \/ NextReceipts
    \/ NextRav
    \/ NextChecks
    \/ NextCollateral
    \/ NextRanges
    \/ NextCycle
    \/ NextIngest

Spec == Init /\ [][Next]_vars

\* the receipt table and its checks alone
SpecReceipts == Init /\ [][NextReceipts]_vars

\* the scenario of the range tests alone
SpecScenario == Init /\ [][NextScenario]_vars

\* the conversion of the ranges alone
SpecRanges == InitRanges /\ [][NextRanges]_vars

\* the two ingestions beside the stores
SpecIngest == Init /\ [][NextIngest]_vars

\* the aggregation cycle beside the stores
SpecCycle == Init /\ [][NextCycle]_vars

\* the CollateralAdapter alone
SpecCollateral == Init /\ [][NextCollateral]_vars

\* the receipt checks and the state they read alone
SpecChecks == Init /\ [][NextChecks]_vars

\* the RAV table, the caches and the watchers alone
SpecRav == Init /\ [][NextRav]_vars

\* the same beside an adapter for an allocation with the same printed address
SpecRavShared == Init /\ [][NextRavShared]_vars

\* the tokio runtime runs every spawned task and every awaited call that can
\* take a step
FairSpecRav ==
    /\ SpecRav
    /\ \A ad \in RavAdapters : WF_vars(WatcherStep(ad))
    /\ \A ad \in RavAdapters : WF_vars(CallerStore(ad))

\* ------------------------------------------------------------ properties
\* RangeBounds::contains: the interval semantics the tests compare with
Contains(range, t) ==
    /\ CASE range.start.kind = "Included" -> range.start.val <= t
         [] range.start.kind = "Excluded" -> range.start.val < t
         [] OTHER -> TRUE
    /\ CASE range.end.kind = "Included" -> t <= range.end.val
         [] range.end.kind = "Excluded" -> t < range.end.val
         [] OTHER -> TRUE

\* the timestamp_ns a row was stored with
StoredTimestamp(row) == row.timestamp_ns.int_val

\* the (id, receipt) pairs stored for an allocation with a timestamp in range
StoredInRange(allocation_id, range) ==
    {<<q.id, q.received_receipt[2]>> :
        q \in {r \in rows : /\ r.allocation_id = AddressToString(allocation_id)
                            /\ Contains(range, StoredTimestamp(r))}}

\* C1: for every range r and adapter, retrieve_receipts_in_timestamp_range(r)
\* returns exactly the stored (id, receipt) pairs of the adapter's allocation
\* whose timestamp_ns lies in r.
C1_RetrieveExact ==
    [][lastOp'.op = "retrieve_receipts_in_timestamp_range" =>
          \A a \in Allocs, r \in Ranges :
              RetrieveReceiptsInTimestampRange(a, r)
                  => /\ lastOp'.ret.ok
                     /\ lastOp'.ret.val = StoredInRange(a, r)]_vars

C3_IdsIncrease ==
    \A i, j \in 1..Len(returned_ids) :
        i < j => returned_ids[i] < returned_ids[j]

\* a store has just returned after an earlier receipt was removed
C3_Witness ==
    /\ lastOp.op = "store_receipt"
    /\ Len(returned_ids) >= 2
    /\ \E i \in 1..Len(returned_ids) : \A r \in rows : r.id # returned_ids[i]

DurableRav(ad) ==
    LET latest_rav == FetchLatestRav(Unwrap(allocation_of[ad]))
    IN  IF latest_rav = None THEN None ELSE Some(from_value(Unwrap(latest_rav)))

\* the completed update_last_rav calls for an allocation, in order
UpdatesOf(allocation_id) ==
    SelectSeq(rav_updates, LAMBDA u : u.allocation_id = allocation_id)

\* the rows of scalar_tap_latest_rav for an allocation
RavRowsOf(table, allocation_id) ==
    {r \in table : r.allocation_id = AddressToString(allocation_id)}

\* C4: when update_last_rav(rav) returns Ok on an adapter, last_rav() on that
\* adapter returns rav.
C4_ReadYourWrite ==
    [][lastOp'.op = "update_last_rav" =>
          \A ad \in RavAdapters, rav \in SignedRAVs :
              UpdateLastRav(ad, rav) => last_rav(ad)' = Ok(Some(rav))]_vars

\* C5: once a notification of a RAV update has been delivered to the watcher
\* of an adapter, the cache of the adapter eventually holds the durable RAV of
\* its allocation, with no retrieve_last_rav call needed.
C5_WatcherConverges ==
    \A ad \in RavAdapters :
        (pending[ad] > 0)
            ~> (allocation_of[ad] # None /\ local_rav_storage[ad] = DurableRav(ad))

\* C6: whenever an adapter has been returned by new(), no notification is
\* pending for it and no refresh of its cache is in progress, its cached RAV
\* is the durable RAV of its allocation.
C6_CacheMatchesDurable ==
    \A ad \in RavAdapters :
        (/\ new_pc[ad] = "returned"
         /\ pending[ad] = 0
         /\ caller[ad].pc = "idle"
         /\ watcher[ad].pc \notin {"retrieve", "write"})
            => local_rav_storage[ad] = DurableRav(ad)

\* C7: the notification watcher of an adapter never terminates.
C7_WatcherNeverExits ==
    \A ad \in RavAdapters : watcher[ad].pc # "exited"

\* C8: after N >= 1 completed update_last_rav calls for an allocation, the
\* table holds exactly one row for the allocation, and it is the RAV of the
\* Nth call.
C8_OneRowLastValue ==
    \A a \in Allocs :
        LET updates == UpdatesOf(a)
        IN  updates # <<>> =>
                RavRowsOf(rav_rows, a) =
                    {[allocation_id |-> AddressToString(a),
                      latest_rav |-> to_value(updates[Len(updates)].rav)]}

\* two update_last_rav calls with different RAVs have completed for one
\* allocation
C8_Witness ==
    \E a \in Allocs :
        LET updates == UpdatesOf(a)
        IN  /\ Len(updates) >= 2
            /\ updates[1].rav # updates[Len(updates)].rav
            /\ Cardinality(RavRowsOf(rav_rows, a)) = 1

\* C9: every update_last_rav, of this process or another, is one step that
\* leaves exactly one row for its allocation, holding its RAV in full whatever
\* the row held before, and leaves the rows of other allocations alone; the
\* table never holds two rows for one allocation.
C9_UpsertAtomic ==
    [][rav_updates' # rav_updates =>
          \A a \in Allocs, rav \in SignedRAVs :
              (\/ RemoteUpdateLastRav(a, rav)
               \/ \E ad \in RavAdapters :
                      allocation_of[ad] = Some(a) /\ UpdateLastRav(ad, rav))
                  => /\ RavRowsOf(rav_rows', a) =
                            {[allocation_id |-> AddressToString(a),
                              latest_rav |-> to_value(rav)]}
                     /\ \A b \in Allocs \ {a} :
                            /\ RavRowsOf(rav_rows', b) = RavRowsOf(rav_rows, b)
                            /\ Cardinality(RavRowsOf(rav_rows', b)) <= 1]_vars

\* update_last_rav of this adapter has just replaced the row of an allocation
\* that was updated before, and the row holds the RAV applied last although
\* its timestamp_ns is the earlier one
C9_Witness ==
    \E a \in Allocs :
        LET updates == UpdatesOf(a)
        IN  /\ Len(updates) >= 2
            /\ lastOp.op = "update_last_rav"
            /\ lastOp.ret.ok
            /\ updates[Len(updates)].rav.message.timestamp_ns
                   < updates[1].rav.message.timestamp_ns
            /\ \E r \in RavRowsOf(rav_rows, a) :
                   r.latest_rav = to_value(updates[Len(updates)].rav)

\* a step of one of the four checks of ReceiptChecksAdapter
CheckStep ==
    \/ \E receipt \in ReceivedReceipts, id \in 1..(MaxId + 1) :
           IsUnique(receipt.signed_receipt, id)
    \/ \E a \in Allocs : IsValidAllocationId(a)
    \/ \E g \in Gateways : IsValidGatewayId(g)
    \/ \E value \in Values, q \in QueryIds : IsValidValue(value, q)

\* C11: is_valid_value for a query_id with no appraisal returns a typed
\* failure to its caller: it does not return a boolean and does not panic.
C11_MissingAppraisalTyped ==
    [][lastOp'.op = "is_valid_value" =>
          \A value \in Values, q \in QueryIds :
              (q \notin DOMAIN query_appraisals /\ IsValidValue(value, q))
                  => /\ ~lastOp'.ret.ok
                     /\ lastOp'.ret.err # "panic"]_vars

\* C12: is_valid_value for a query_id with an appraisal returns true when
\* value is the recorded appraisal and false when it is not.
C12_ValueMatchesAppraisal ==
    [][lastOp'.op = "is_valid_value" =>
          \A value \in Values, q \in QueryIds :
              (q \in DOMAIN query_appraisals /\ IsValidValue(value, q))
                  => lastOp'.ret = Ok(value = query_appraisals[q])]_vars

\* is_valid_value has just refused a value below the recorded appraisal
C12_Witness ==
    /\ lastOp.op = "is_valid_value"
    /\ lastOp.ret = Ok(FALSE)
    /\ \E q \in DOMAIN query_appraisals : query_appraisals[q] = 1
    /\ \A q \in DOMAIN query_appraisals : query_appraisals[q] = 1

\* C13: is_valid_allocation_id(a) returns true iff a is in the allocation
\* whitelist as it stands when the call returns, and is_valid_gateway_id(g)
\* returns true iff g is in the gateway whitelist as it stands then.
C13_WhitelistMembership ==
    [][/\ lastOp'.op = "is_valid_allocation_id" =>
              \A a \in Allocs :
                  IsValidAllocationId(a) => lastOp'.ret = Ok(a \in allocation_ids')
       /\ lastOp'.op = "is_valid_gateway_id" =>
              \A g \in Gateways :
                  IsValidGatewayId(g) => lastOp'.ret = Ok(g \in gateway_ids')]_vars

\* is_valid_allocation_id has just accepted an allocation while the gateway
\* whitelist holds none of the gateways and the allocation whitelist is not
\* all of the allocations
C13_Witness ==
    /\ lastOp.op = "is_valid_allocation_id"
    /\ lastOp.ret = Ok(TRUE)
    /\ allocation_ids # {}
    /\ allocation_ids # Allocs
    /\ gateway_ids = {}

\* C14: a step of one of the four checks leaves the receipt table, the
\* appraisals and the whitelists unchanged, so every check of every receipt
\* returns after the step what it returned before it.
C14_ChecksArePure ==
    [][CheckStep =>
          /\ UNCHANGED <<rows, next_id, query_appraisals, allocation_ids, gateway_ids>>
          /\ \A receipt \in ReceivedReceipts, id \in 1..(MaxId + 1) :
                 is_unique(receipt.signed_receipt, id)' =
                     is_unique(receipt.signed_receipt, id)
          /\ \A a \in Allocs : is_valid_allocation_id(a)' = is_valid_allocation_id(a)
          /\ \A g \in Gateways : is_valid_gateway_id(g)' = is_valid_gateway_id(g)
          /\ \A value \in Values, q \in QueryIds :
                 is_valid_value(value, q)' = is_valid_value(value, q)]_vars

\* a check has just returned with receipts stored, an appraisal recorded and
\* both whitelists filled
C14_Witness ==
    /\ lastOp.op = "is_valid_value"
    /\ lastOp.ret.ok
    /\ rows # {}
    /\ DOMAIN query_appraisals # {}
    /\ allocation_ids # {}
    /\ gateway_ids # {}

\* C15: update_receipt_by_id with an identifier no row has fails with an
\* error that is not the error a failed statement gives, and leaves every
\* row as it was.
C15_NotFoundDistinct ==
    [][lastOp'.op = "update_receipt_by_id" =>
          \A id \in 1..(MaxId + 1), receipt \in ReceivedReceipts :
              ((\A r \in rows : r.id # id) /\ UpdateReceiptById(id, receipt))
                  => /\ ~lastOp'.ret.ok
                     /\ lastOp'.ret.err # AdapterErrorFrom("PoolClosed")
                     /\ rows' = rows]_vars

\* C16: update_receipt_by_id(id, r) with the identifier of a row succeeds,
\* makes r the receipt of that row and changes nothing else: the identifiers
\* and every other row are as before, and the unbounded retrieve of every
\* allocation returns the pairs it returned before with only the pair of id
\* replaced by (id, r).
C16_UpdateReplacesOne ==
    [][lastOp'.op = "update_receipt_by_id" =>
          \A id \in 1..(MaxId + 1), receipt \in ReceivedReceipts :
              ((\E r \in rows : r.id = id) /\ UpdateReceiptById(id, receipt))
                  => /\ lastOp'.ret.ok
                     /\ {r.id : r \in rows'} = {r.id : r \in rows}
                     /\ \A r \in rows : r.id # id => r \in rows'
                     /\ \A r \in rows' : r.id = id =>
                            from_value(r.received_receipt) = receipt
                     /\ \A b \in Allocs :
                            RetrieveRows(b, FullRange)' =
                                {IF pair[1] = id THEN <<id, receipt>> ELSE pair :
                                    pair \in RetrieveRows(b, FullRange)}
                     /\ next_id' = next_id]_vars

\* an update has just put another receipt into one of two rows
C16_Witness ==
    /\ lastOp.op = "update_receipt_by_id"
    /\ lastOp.ret.ok
    /\ Cardinality(rows) = 2
    /\ \E r \in rows :
           from_value(r.received_receipt).signed_receipt.message.timestamp_ns
               # StoredTimestamp(r)
    /\ \E r \in rows :
           from_value(r.received_receipt).signed_receipt.message.timestamp_ns
               = StoredTimestamp(r)

\* C17: when store_receipt(r) returns id, the unbounded retrieve of the
\* adapter holds the pair (id, r), it is the only pair with that identifier,
\* and on a store that was empty it is the only pair returned.
C17_StoreRetrieveRoundTrip ==
    [][lastOp'.op = "store_receipt" =>
          \A a \in Allocs, receipt \in ReceivedReceipts :
              StoreReceipt(a, receipt)
                  => /\ lastOp'.ret.ok
                     /\ <<lastOp'.ret.val, receipt>> \in RetrieveRows(a, FullRange)'
                     /\ \A b \in Allocs : \A pair \in RetrieveRows(b, FullRange)' :
                            pair[1] = lastOp'.ret.val => (b = a /\ pair[2] = receipt)
                     /\ (rows = {} =>
                            RetrieveRows(a, FullRange)' = {<<lastOp'.ret.val, receipt>>})]_vars

\* a store into an empty table has just returned an identifier above 1
C17_Witness ==
    /\ lastOp.op = "store_receipt"
    /\ lastOp.ret.val > 1
    /\ Cardinality(rows) = 1
    /\ \E r \in rows : r.id = lastOp.ret.val /\ StoredTimestamp(r) = 1

\* the timestamps of the receipts of a set of (id, receipt) pairs
TimestampsOf(pairs) == {pair[2].signed_receipt.message.timestamp_ns : pair \in pairs}

\* C18: with the receipts of timestamps 42 to 51 stored for an allocation,
\* its retrieve of 45..=51 returns exactly 7 receipts; after the remove of
\* ..50 its unbounded retrieve returns exactly two receipts, those of
\* timestamps 50 and 51.
C18_Scenario ==
    [][/\ ScenarioRetrieve =>
              /\ lastOp'.ret.ok
              /\ Cardinality(lastOp'.ret.val) = 7
              /\ TimestampsOf(lastOp'.ret.val) = 45..51
       /\ ScenarioRetrieveAll =>
              /\ lastOp'.ret.ok
              /\ Cardinality(lastOp'.ret.val) = 2
              /\ TimestampsOf(lastOp'.ret.val) = {50, 51}]_vars

\* the unbounded retrieve after the remove has just returned two receipts
\* while a receipt of another allocation is still stored
C18_Witness ==
    /\ lastOp.op = "retrieve_receipts_in_timestamp_range"
    /\ lastOp.ret.ok
    /\ Cardinality(lastOp.ret.val) = 2
    /\ StoredFor(OtherAllocation) = 1
    /\ StoredFor(ScenarioAllocation) = 2

\* the step on which new() returns the adapter
NewReturns(ad) == new_pc[ad] = "retrieve" /\ CallerStore(ad)

\* C19: when new() returns an adapter, its cache holds the RAV that new() read
\* from the row of the allocation, if it read one; it is empty, and last_rav()
\* returns None, if no row exists for the allocation; and if the row is as
\* new() read it, the cache is the latest persisted RAV.
C19_NewLoadsCache ==
    [][\A ad \in RavAdapters :
           NewReturns(ad) =>
               /\ lastOp'.ret.ok
               /\ caller[ad].latest_rav # None =>
                      local_rav_storage'[ad] =
                          Some(from_value(Unwrap(caller[ad].latest_rav)))
               /\ FetchLatestRav(Unwrap(allocation_of[ad])) = None =>
                      /\ local_rav_storage'[ad] = None
                      /\ last_rav(ad)' = Ok(None)
               /\ FetchLatestRav(Unwrap(allocation_of[ad])) = caller[ad].latest_rav =>
                      local_rav_storage'[ad] = DurableRav(ad)']_vars

\* new() has just returned an adapter whose cache holds the persisted RAV of
\* its allocation
C19_Witness ==
    /\ lastOp.op = "new"
    /\ lastOp.ret.ok
    /\ \E ad \in RavAdapters :
           /\ new_pc[ad] = "returned"
           /\ local_rav_storage[ad] # None
           /\ local_rav_storage[ad] = DurableRav(ad)

\* C20: last_rav() returns Ok of the cached value, whatever the durable row
\* holds, leaves the cache and the table unchanged, and does so after the
\* watcher has exited on an error too.
C20_LastRavReadsCache ==
    [][\A ad \in RavAdapters :
           LastRav(ad) =>
               /\ lastOp'.ret = Ok(local_rav_storage[ad])
               /\ UNCHANGED <<local_rav_storage, rav_rows, rav_updates, pending>>
               /\ watcher[ad].pc = "exited" => lastOp'.ret.ok]_vars

\* last_rav() has just returned the cached value with the watcher exited and
\* the durable row holding another RAV
C20_Witness ==
    /\ lastOp.op = "last_rav"
    /\ lastOp.ret.ok
    /\ \E ad \in RavAdapters :
           /\ watcher[ad].pc = "exited"
           /\ lastOp.ret.val = local_rav_storage[ad]
           /\ local_rav_storage[ad] # None
           /\ local_rav_storage[ad] # DurableRav(ad)

\* the sum of the amounts of the subtractions of a gateway that returned Ok
RECURSIVE SumSubtracted(_, _)
SumSubtracted(calls, gateway_id) ==
    IF calls = <<>> THEN 0
    ELSE (IF Head(calls).gateway_id = gateway_id /\ Head(calls).ret.ok
          THEN Head(calls).value ELSE 0)
         + SumSubtracted(Tail(calls), gateway_id)

\* the balance of a gateway before any subtraction: what
\* get_available_collateral returns for it then
InitialBalance(gateway_id) == U128_MAX

\* the balance the ledger owes the gateway: its initial balance minus what was
\* successfully subtracted from it
LedgerBalance(gateway_id) ==
    InitialBalance(gateway_id) - SumSubtracted(subtractions, gateway_id)

\* C21: the amounts successfully subtracted from a gateway never sum to more
\* than its initial balance (its balance never goes below zero), and a
\* subtraction that would take it below zero fails with InsufficientCollateral.
C21_NeverNegative ==
    /\ \A g \in Gateways : LedgerBalance(g) >= 0
    /\ \A k \in 1..Len(subtractions) :
           LET call == subtractions[k]
               before == InitialBalance(call.gateway_id)
                             - SumSubtracted(SubSeq(subtractions, 1, k - 1),
                                             call.gateway_id)
           IN  call.value > before => call.ret = Err("InsufficientCollateral", None)

\* C22: a subtract_collateral whose amount exceeds the current balance of the
\* gateway fails with InsufficientCollateral and leaves every balance as it
\* was.
C22_InsufficientFails ==
    [][\A g \in Gateways, value \in Amounts :
           (value > LedgerBalance(g) /\ SubtractCollateral(g, value))
               => /\ lastOp'.ret = Err("InsufficientCollateral", None)
                  /\ \A h \in Gateways :
                         /\ LedgerBalance(h)' = LedgerBalance(h)
                         /\ get_available_collateral(h)' = get_available_collateral(h)]_vars

\* C23: get_available_collateral of a gateway is its initial balance minus the
\* sum of the amounts successfully subtracted from it, and a subtraction on a
\* gateway leaves what get_available_collateral returns for the others.
C23_NoLostUpdate ==
    \A g \in Gateways :
        get_available_collateral(g) = Ok(LedgerBalance(g))

\* C24: every receipt that the remove of an aggregation cycle deletes was in
\* the batch that the retrieve of the cycle returned for the window.
C24_RemovedWasFolded ==
    [][CycleRemove =>
          \A r \in rows \ rows' :
              <<r.id, from_value(r.received_receipt)>> \in cycle.batch]_vars

\* C25: remove_receipts_in_timestamp_range called on an adapter for an
\* allocation leaves what an adapter for any other allocation retrieves, over
\* any range, as it was.
C25_RemoveOwnAllocationOnly ==
    [][lastOp'.op = "remove_receipts_in_timestamp_range" =>
          \A range \in Ranges :
              RemoveReceiptsInTimestampRange(range) =>
                  \A a \in Allocs :
                      \A b \in Allocs \ {a}, other \in Ranges :
                          RetrieveRows(b, other)' = RetrieveRows(b, other)]_vars

\* C26: when new() returns an adapter its watcher has subscribed, and every
\* durable RAV update after that queues a notification for the watcher.
C26_SubscribedAtReturn ==
    [][\A ad \in RavAdapters :
           /\ NewReturns(ad) => watcher'[ad].pc \in Listening
           /\ (new_pc[ad] = "returned" /\ rav_updates' # rav_updates)
                  => pending'[ad] = pending[ad] + 1]_vars

\* C27: of two ingestions of one signed receipt, each a store_receipt followed
\* by is_unique with the identifier it was given, at most one is told that the
\* receipt is unique, under every interleaving.
C27_AtMostOneUnique ==
    ~(\A i \in Ingestions : ingestion[i].unique = Some(TRUE))

\* both ingestions have finished, the first was told unique and the second was
\* not
C27_Witness ==
    /\ \A i \in Ingestions : ingestion[i].pc = "done"
    /\ \E i \in Ingestions : ingestion[i].unique = Some(TRUE)
    /\ \E i \in Ingestions : ingestion[i].unique = Some(FALSE)
    /\ ingestion[1].receipt = ingestion[2].receipt

\* C28: the signature and timestamp_ns columns of every stored row are those
\* of the receipt stored in its received_receipt column.
C28_IndexMatchesPayload ==
    \A r \in rows :
        LET receipt == from_value(r.received_receipt)
        IN  /\ r.signature = SignatureToString(receipt.signed_receipt.signature)
            /\ r.timestamp_ns = BigDecimalFrom(receipt.signed_receipt.message.timestamp_ns)

\* a bound of the store's range is the u64 bound it was made from: the same
\* kind and, unless Unbounded, the same number
BoundPreserved(bound, pg) ==
    /\ pg.kind = bound.kind
    /\ bound.kind # "Unbounded" => (pg.val.scale = 0 /\ pg.val.int_val = bound.val)

\* C29: rangebounds_to_pgrange maps the start bound and the end bound of a
\* range each to a bound of the same kind (Included, Excluded, Unbounded) and
\* of the same number, for every u64.
C29_BoundsPreserved ==
    [][RangeboundsToPgrange =>
           /\ BoundPreserved(lastOp.ret.val.start, lastOp'.ret.val.start)
           /\ BoundPreserved(lastOp.ret.val.end, lastOp'.ret.val.end)]_vars

\* the range (Excluded(u64::MAX), Included(u64::MAX)) has just been converted
C29_Witness ==
    /\ lastOp.op = "rangebounds_to_pgrange"
    /\ lastOp.ret.val.start.kind = "Excluded"
    /\ lastOp.ret.val.start.val.int_val = U64_MAX
    /\ lastOp.ret.val.end.kind = "Included"
    /\ lastOp.ret.val.end.val.int_val = U64_MAX

\* an interval no timestamp satisfies: its start is above its end, or equal
\* to it with one of the two exclusive
EmptyInterval(range) ==
    /\ range.start.kind # "Unbounded"
    /\ range.end.kind # "Unbounded"
    /\ \/ range.start.val > range.end.val
       \/ /\ range.start.val = range.end.val
          /\ "Excluded" \in {range.start.kind, range.end.kind}

\* C30: for an interval no timestamp satisfies, the retrieve returns Ok with
\* no receipt and the remove returns Ok and deletes nothing.
C30_EmptyIntervals ==
    [][\A range \in {r \in Ranges : EmptyInterval(r)} :
           /\ \A a \in Allocs :
                  (/\ lastOp'.op = "retrieve_receipts_in_timestamp_range"
                   /\ RetrieveReceiptsInTimestampRange(a, range))
                      => lastOp'.ret = Ok({})
           /\ (/\ lastOp'.op = "remove_receipts_in_timestamp_range"
               /\ RemoveReceiptsInTimestampRange(range))
                  => (lastOp'.ret.ok /\ rows' = rows)]_vars

\* the RAVs that the row keyed by the adapter's allocation has held so far:
\* those of the completed update_last_rav calls under that key
DurableHistory(ad) ==
    {rav_updates[k].rav :
        k \in {i \in 1..Len(rav_updates) :
                  AddressToString(rav_updates[i].allocation_id) =
                      AddressToString(Unwrap(allocation_of[ad]))}}

\* C31: the cache of an adapter never goes from Cached back to Unknown, and
\* whenever it changes it becomes Cached(r) for an r that the durable row of
\* the adapter's allocation has held.
C31_CacheTransitions ==
    [][\A ad \in RavAdapters :
           /\ local_rav_storage[ad] # None => local_rav_storage'[ad] # None
           /\ local_rav_storage'[ad] # local_rav_storage[ad] =>
                  /\ local_rav_storage'[ad] # None
                  /\ Unwrap(local_rav_storage'[ad]) \in DurableHistory(ad)]_vars

\* the cache holds the second of two different RAVs that the row of the
\* allocation has held: it has gone from Unknown to Cached, or from Cached(r)
\* to Cached(r')
C31_Witness ==
    \E ad \in RavAdapters :
        /\ new_pc[ad] = "returned"
        /\ local_rav_storage[ad] # None
        /\ Cardinality(DurableHistory(ad)) = 2
        /\ local_rav_storage[ad] = DurableRav(ad)
        /\ watcher[ad].pc = "recv"

\* the RAVs of the completed update_last_rav calls of the adapters for the
\* allocation of the adapter
OwnUpdates(ad) ==
    {rav_updates[k].rav :
        k \in {i \in 1..Len(rav_updates) :
                  rav_updates[i].allocation_id = Unwrap(allocation_of[ad])}}

\* C32: an update_last_rav for another allocation leaves the cache of the
\* adapter as it is, and whenever the cache changes, on a notification or on a
\* call, it takes a RAV that was stored for the adapter's own allocation.
C32_OtherAllocationNoEffect ==
    [][\A ad \in RavAdapters :
           allocation_of[ad] # None =>
               /\ (/\ rav_updates' # rav_updates
                   /\ rav_updates'[Len(rav_updates')].allocation_id
                          # Unwrap(allocation_of[ad]))
                      => local_rav_storage'[ad] = local_rav_storage[ad]
               /\ local_rav_storage'[ad] # local_rav_storage[ad] =>
                      /\ local_rav_storage'[ad] # None
                      /\ Unwrap(local_rav_storage'[ad]) \in OwnUpdates(ad)]_vars

\* C33: every row of scalar_tap_latest_rav holds, under the key of an
\* allocation, a RAV whose message names that allocation.
C33_RowNamesItsAllocation ==
    \A r \in rav_rows :
        r.allocation_id = AddressToString(from_value(r.latest_rav).message.allocation_id)

\* C34: new() does not return an adapter whose watcher has failed to
\* subscribe, the watcher does not fail to subscribe once new() has returned
\* the adapter, and when the first read of the row fails new() fails.
C34_FailFastAtNew ==
    [][\A ad \in RavAdapters :
           /\ NewReturns(ad) => watcher'[ad].pc # "exited"
           /\ (watcher[ad].pc = "listen" /\ WatcherFail(ad))
                  => new_pc'[ad] # "returned"
           /\ (new_pc[ad] = "retrieve" /\ CallerRetrieveFail(ad))
                  => (~lastOp'.ret.ok /\ new_pc'[ad] # "returned")]_vars

====
